---- MODULE Spec2Model ----
(***************************************************************************)
(* Postits API (src/backend/app.py): a FastAPI service over one table,     *)
(* posts(id SERIAL PRIMARY KEY, text TEXT NOT NULL, created_at             *)
(* TIMESTAMPTZ DEFAULT now()).                                             *)
(*                                                                         *)
(* Startup (on_startup) runs wait_for_db, creates the connection pool and  *)
(* runs init_db_table; the request handlers list_posts, create_post and    *)
(* delete_post each run one SQL statement on a pooled autocommit           *)
(* connection.  Handlers run concurrently (one per request slot); a        *)
(* statement is one atomic step of the database.                           *)
(*                                                                         *)
(* Spec      : the database may refuse the startup probes; once a probe    *)
(*             has succeeded it executes every statement.                  *)
(* FaultSpec : Spec plus database / pool failures after the probe          *)
(*             (psycopg exceptions surfacing as 500, or failing startup).  *)
(* WaitSpec  : wait_for_db alone, each loop iteration eventually ending.   *)
(***************************************************************************)
EXTENDS Integers, Sequences, FiniteSets, TLC

\* ---------------------------------------------------------------- bounds
\* request slots (requests that can be in flight at the same time)
MaxReq == 2
\* values the SERIAL sequence posts_id_seq hands out in a run
MaxId == 2
\* now() takes the values 0..MaxTime
MaxTime == 1
\* wait_for_db's retries parameter (default 60 in the source), scaled down
retries == 5
\* requests the server accepts in a run
MaxOps == 3

\* ConnectionPool(max_size=10)
max_size == 10

Reqs == 1..MaxReq

None == "None"

\* the exceptions a probe attempt can end with (connection refused, timeout)
ProbeErrors == {"refused", "timeout"}

\* request bodies: PostIn.text as a sequence of characters
Payloads ==
    { <<>>, <<" ">>, <<" ", "a", " ">>, <<"a", " ", "a">> }

\* path parameters of DELETE /posts/{post_id}; 0 is an id SERIAL never assigns
PostIds == 0..MaxId

VARIABLES
    phase,      \* where on_startup is: "wait", "pool", "init", "serving",
                \* "wait_raised", "init_raised"
    attempt,    \* wait_for_db: iterations of `for _ in range(retries)` done
    last_err,   \* wait_for_db: last_err
    probes,     \* wait_for_db: outcome of each attempt so far, in order
    fatal,      \* the exception on_startup ended with (None if none)
    pool,       \* the global pool: None or "open"
    initRuns,   \* number of times init_db_table has run
    tableExists,\* the posts table exists in the database
    posts,      \* rows of the posts table
    seq,        \* last value of the sequence behind posts.id
    now,        \* the latest value now() returned to a statement
    deleted,    \* ids whose row a DELETE statement has removed
    confirmed,  \* number of {"deleted": id} responses returned, per id
    held,       \* pooled connections each request slot holds
    acq,        \* connections the slot's current request has taken so far
    req,        \* the request each slot is handling / has last answered
    nreq        \* requests accepted so far

vars == << phase, attempt, last_err, probes, fatal, pool, initRuns,
           tableExists, posts, seq, now, deleted, confirmed, held, acq,
           req, nreq >>

startupVars == << phase, attempt, last_err, probes, fatal, pool, initRuns,
                  tableExists >>
dbVars == << posts, seq, now, deleted >>
reqVars == << confirmed, held, acq, req, nreq >>

\* ------------------------------------------------------------ str.strip()
IsSpace(c) == c = " "

RECURSIVE lstrip(_)
lstrip(s) ==
    IF s = <<>> THEN s
    ELSE IF IsSpace(Head(s)) THEN lstrip(Tail(s)) ELSE s

RECURSIVE rstrip(_)
rstrip(s) ==
    IF s = <<>> THEN s
    ELSE IF IsSpace(s[Len(s)]) THEN rstrip(SubSeq(s, 1, Len(s) - 1)) ELSE s

\* a strip that trims the left end only
strip_left_only(s) == lstrip(s)

strip(s) == rstrip(lstrip(s))

\* ------------------------------------------------------------- responses
NoResp == [status |-> 0, rows |-> <<>>, deleted |-> -1, detail |-> ""]

Ok200Rows(rows) ==
    [status |-> 200, rows |-> rows, deleted |-> -1, detail |-> ""]
Created201(row) ==
    [status |-> 201, rows |-> <<row>>, deleted |-> -1, detail |-> ""]
Deleted200(id) ==
    [status |-> 200, rows |-> <<>>, deleted |-> id, detail |-> ""]
HTTPException(code, detail) ==
    [status |-> code, rows |-> <<>>, deleted |-> -1, detail |-> detail]
\* what the framework answers when a handler raises anything else
ServerError == HTTPException(500, "Internal Server Error")

\* a slot: pc is "idle", "conn" (inside `with pool.connection()`) or "done";
\* stored0 records whether post_id was stored when the request arrived
Idle ==
    [pc |-> "idle", op |-> "none", payload |-> <<>>, text |-> <<>>,
     post_id |-> -1, stored0 |-> FALSE, resp |-> NoResp]

Ids(rows) == { p.id : p \in rows }

\* -------------------------------------------------------------- startup
Init ==
    /\ phase = "wait"
    /\ attempt = 0
    /\ last_err = None
    /\ probes = <<>>
    /\ fatal = None
    /\ pool = None
    /\ initRuns = 0
    /\ tableExists = FALSE
    /\ posts = {}
    /\ seq = 0
    /\ now = 0
    /\ deleted = {}
    /\ confirmed = [i \in 1..MaxId |-> 0]
    /\ held = [r \in Reqs |-> 0]
    /\ acq = [r \in Reqs |-> 0]
    /\ req = [r \in Reqs |-> Idle]
    /\ nreq = 0

\* wait_for_db: one iteration whose connect and SELECT 1 succeed: return
ProbeOk ==
    /\ phase = "wait"
    /\ attempt < retries
    /\ attempt' = attempt + 1
    /\ probes' = Append(probes, "ok")
    /\ phase' = "pool"
    /\ UNCHANGED << last_err, fatal, pool, initRuns, tableExists, dbVars,
                    reqVars >>

\* an except clause that keeps the first error
ProbeFail_keep_first(e) ==
    /\ phase = "wait"
    /\ attempt < retries
    /\ attempt' = attempt + 1
    /\ probes' = Append(probes, e)
    /\ last_err' = IF last_err = None THEN e ELSE last_err
    /\ UNCHANGED << phase, fatal, pool, initRuns, tableExists, dbVars,
                    reqVars >>

\* wait_for_db: one iteration that raises e: last_err = e, sleep, next
ProbeFail(e) ==
    /\ phase = "wait"
    /\ attempt < retries
    /\ attempt' = attempt + 1
    /\ probes' = Append(probes, e)
    /\ last_err' = e
    /\ UNCHANGED << phase, fatal, pool, initRuns, tableExists, dbVars,
                    reqVars >>

\* wait_for_db: the loop is exhausted: raise RuntimeError(... last_err),
\* which ends on_startup
WaitRaise ==
    /\ phase = "wait"
    /\ attempt = retries
    /\ phase' = "wait_raised"
    /\ fatal' = << "RuntimeError", retries, last_err >>
    /\ UNCHANGED << attempt, last_err, probes, pool, initRuns, tableExists,
                    dbVars, reqVars >>

\* on_startup after wait_for_db returned: pool = ConnectionPool(...).
\* The locals of the finished wait_for_db call no longer exist.
CreatePool ==
    /\ phase = "pool"
    /\ pool' = "open"
    /\ phase' = "init"
    /\ attempt' = 0
    /\ last_err' = None
    /\ probes' = <<>>
    /\ UNCHANGED << fatal, initRuns, tableExists, dbVars, reqVars >>

\* init_db_table: CREATE TABLE IF NOT EXISTS on a pooled connection, which
\* is given back when the with block ends; on_startup is then complete.
init_db_table ==
    /\ phase = "init"
    /\ pool # None
    /\ tableExists' = TRUE
    /\ initRuns' = initRuns + 1
    /\ phase' = "serving"
    /\ UNCHANGED << attempt, last_err, probes, fatal, pool, dbVars, reqVars >>

\* ------------------------------------------------------------- requests
\* requests handed to the handlers while the startup event is still running
Serving_before_init == phase \in {"init", "serving"}

\* The server hands requests to the handlers once the startup event
\* (on_startup) has completed.
Serving == phase = "serving"

CanStart(r) ==
    /\ Serving
    /\ req[r].pc \in {"idle", "done"}
    /\ nreq < MaxOps
    /\ nreq' = nreq + 1

RECURSIVE Sum(_, _)
Sum(f, S) ==
    IF S = {} THEN 0
    ELSE LET x == CHOOSE y \in S : TRUE IN f[x] + Sum(f, S \ {x})

\* connections currently out of the pool
Used == Sum(held, Reqs)

\* pool.connection(): a connection is taken out of the pool
Acquire(r) ==
    /\ pool # None
    /\ Used < max_size
    /\ held' = [held EXCEPT ![r] = @ + 1]
    /\ acq' = [acq EXCEPT ![r] = 1]

\* a with block that does not give the connection back
Release_leak(r) == UNCHANGED held

\* leaving the with block: the connection goes back to the pool
Release(r) == held' = [held EXCEPT ![r] = @ - 1]

\* GET /posts arrives: list_posts enters `with pool.connection()`
BeginList(r) ==
    /\ CanStart(r)
    /\ Acquire(r)
    /\ req' = [req EXCEPT ![r] = [Idle EXCEPT !.pc = "conn", !.op = "list"]]
    /\ UNCHANGED << startupVars, dbVars, confirmed >>

\* POST /posts arrives: create_post strips the text and rejects an empty one
\* with 400 before touching the pool, otherwise enters the with block
BeginCreate(r, payload) ==
    /\ CanStart(r)
    /\ LET text == strip(payload) IN
        IF text = <<>>
        THEN /\ req' = [req EXCEPT ![r] =
                    [Idle EXCEPT !.pc = "done", !.op = "create",
                                 !.payload = payload, !.text = text,
                                 !.resp = HTTPException(400, "empty text")]]
             /\ acq' = [acq EXCEPT ![r] = 0]
             /\ UNCHANGED held
        ELSE /\ Acquire(r)
             /\ req' = [req EXCEPT ![r] =
                    [Idle EXCEPT !.pc = "conn", !.op = "create",
                                 !.payload = payload, !.text = text]]
    /\ UNCHANGED << startupVars, dbVars, confirmed >>

\* DELETE /posts/{post_id} arrives: delete_post enters the with block
BeginDelete(r, post_id) ==
    /\ CanStart(r)
    /\ Acquire(r)
    /\ req' = [req EXCEPT ![r] =
            [Idle EXCEPT !.pc = "conn", !.op = "delete", !.post_id = post_id,
                         !.stored0 = post_id \in Ids(posts)]]
    /\ UNCHANGED << startupVars, dbVars, confirmed >>

\* permutations of a finite set, as sequences
Perms(S) ==
    { f \in [1..Cardinality(S) -> S] :
        \A i, j \in 1..Cardinality(S) : i # j => f[i] # f[j] }

\* ORDER BY created_at ASC
SelectOrderByCreatedAtAsc(rows) ==
    { s \in Perms(rows) :
        \A i, j \in 1..Len(s) : i < j => s[i].created_at <= s[j].created_at }

\* SELECT id, text, created_at FROM posts ORDER BY created_at DESC:
\* the results the database may return (rows with equal created_at in any
\* order)
SelectOrderByCreatedAtDesc(rows) ==
    { s \in Perms(rows) :
        \A i, j \in 1..Len(s) : i < j => s[i].created_at >= s[j].created_at }

\* a handler that returns cur.fetchone() where list_posts has fetchall()
fetchone_only(rows) == IF rows = <<>> THEN rows ELSE << rows[1] >>

\* cur.fetchall(): every row of the result
fetchall(rows) == rows

\* list_posts: execute, fetchall, leave the with block, return the rows
ExecList(r) ==
    /\ req[r].pc = "conn"
    /\ req[r].op = "list"
    /\ \E rows \in SelectOrderByCreatedAtDesc(posts) :
        req' = [req EXCEPT ![r].pc = "done",
                           ![r].resp = Ok200Rows(fetchall(rows))]
    /\ Release(r)
    /\ UNCHANGED << startupVars, dbVars, confirmed, acq, nreq >>

\* an id computed as max(id) + 1 over the stored rows
InsertReturning_max_plus_one(text, t) ==
    [id |-> IF posts = {} THEN 1
            ELSE 1 + CHOOSE x \in Ids(posts) : \A y \in Ids(posts) : y <= x,
     text |-> text, created_at |-> t]

\* INSERT INTO posts (text) VALUES (text) RETURNING id, text, created_at:
\* id = nextval of the sequence, created_at = t, the value of now()
InsertReturning(text, t) ==
    [id |-> seq + 1, text |-> text, created_at |-> t]

\* the values now() can have for the next statement: the clock never goes
\* back, and two statements can read the same value
ClockReadings == now..(IF now < MaxTime THEN now + 1 ELSE now)

\* create_post: execute the INSERT, fetchone, leave the with block, return
ExecCreate(r) ==
    /\ req[r].pc = "conn"
    /\ req[r].op = "create"
    /\ seq < MaxId
    /\ \E t \in ClockReadings :
        LET row == InsertReturning(req[r].text, t) IN
            /\ now' = t
            /\ posts' = posts \cup {row}
            /\ seq' = seq + 1
            /\ req' = [req EXCEPT ![r].pc = "done",
                                  ![r].resp = Created201(row)]
    /\ Release(r)
    /\ UNCHANGED << startupVars, deleted, confirmed, acq, nreq >>

\* WHERE id >= post_id
DeleteReturning_ge(post_id) == { p \in posts : p.id >= post_id }

\* DELETE FROM posts WHERE id = post_id RETURNING id: the rows removed
DeleteReturning(post_id) == { p \in posts : p.id = post_id }

\* an answer that does not look at the fetched row
DeleteAnswer_unchecked(r, gone) == Deleted200(req[r].post_id)

\* an answer decided by an existence check made when the request arrived
DeleteAnswer_checked_before(r, gone) ==
    IF req[r].stored0 THEN Deleted200(req[r].post_id)
    ELSE HTTPException(404, "not found")

\* delete_post: row = cur.fetchone(); the confirmation if row, else 404
DeleteAnswer(r, gone) ==
    IF gone # {} THEN Deleted200(req[r].post_id)
    ELSE HTTPException(404, "not found")

\* delete_post: execute the DELETE, fetchone, answer, leave the with block
ExecDelete(r) ==
    /\ req[r].pc = "conn"
    /\ req[r].op = "delete"
    /\ LET gone == DeleteReturning(req[r].post_id)
           ans  == DeleteAnswer(r, gone) IN
        /\ posts' = posts \ gone
        /\ deleted' = deleted \cup Ids(gone)
        /\ req' = [req EXCEPT ![r].pc = "done", ![r].resp = ans]
        /\ confirmed' =
             IF ans.deleted \in DOMAIN confirmed
             THEN [confirmed EXCEPT ![ans.deleted] = @ + 1]
             ELSE confirmed
    /\ Release(r)
    /\ UNCHANGED << startupVars, seq, now, acq, nreq >>

StartupNext ==
    \/ ProbeOk
    \/ \E e \in ProbeErrors : ProbeFail(e)
    \/ WaitRaise
    \/ CreatePool
    \/ init_db_table

RequestNext ==
    \/ \E r \in Reqs : BeginList(r)
    \/ \E r \in Reqs : \E payload \in Payloads : BeginCreate(r, payload)
    \/ \E r \in Reqs : \E post_id \in PostIds : BeginDelete(r, post_id)
    \/ \E r \in Reqs : ExecList(r)
    \/ \E r \in Reqs : ExecCreate(r)
    \/ \E r \in Reqs : ExecDelete(r)

Next == StartupNext \/ RequestNext

Spec == Init /\ [][Next]_vars

\* ------------------------------------------------- wait_for_db on its own
WaitNext ==
    \/ ProbeOk
    \/ \E e \in ProbeErrors : ProbeFail(e)
    \/ WaitRaise

\* every iteration ends: connect has connect_timeout=3 and sleep(delay)
\* returns, so the loop keeps going until it returns or raises
WaitSpec == Init /\ [][WaitNext]_vars /\ WF_vars(WaitNext)

\* ------------------------------------------- database and pool failures
\* init_db_table raises (the database went away after the probe): the
\* exception leaves on_startup and the service does not start
InitFail ==
    /\ phase = "init"
    /\ pool # None
    /\ initRuns' = initRuns + 1
    /\ phase' = "init_raised"
    /\ fatal' = << "OperationalError" >>
    /\ UNCHANGED << attempt, last_err, probes, pool, tableExists, dbVars,
                    reqVars >>

\* the requests a handler can be in the with block for
Requests ==
    { [Idle EXCEPT !.op = "list"] }
    \cup { [Idle EXCEPT !.op = "create", !.payload = payload,
                        !.text = strip(payload)] :
             payload \in { q \in Payloads : strip(q) # <<>> } }
    \cup { [Idle EXCEPT !.op = "delete", !.post_id = post_id,
                        !.stored0 = post_id \in Ids(posts)] :
             post_id \in PostIds }

\* pool.connection() raises (PoolTimeout: no connection could be had): the
\* handler ends without a connection and the framework answers 500
PoolTimeout(r) ==
    /\ CanStart(r)
    /\ pool # None
    /\ \E q \in Requests :
        req' = [req EXCEPT ![r] = [q EXCEPT !.pc = "done",
                                            !.resp = ServerError]]
    /\ acq' = [acq EXCEPT ![r] = 0]
    /\ UNCHANGED << startupVars, dbVars, confirmed, held >>

\* cur.execute / fetch raises inside the with block: the connection goes
\* back to the pool and the framework answers 500.  Under autocommit the
\* statement either had no effect or was committed before the reply was
\* lost (applied).
ExecFail(r, applied) ==
    /\ req[r].pc = "conn"
    /\ req' = [req EXCEPT ![r].pc = "done", ![r].resp = ServerError]
    /\ Release(r)
    /\ IF applied /\ req[r].op = "create" /\ seq < MaxId
       THEN \E t \in ClockReadings :
              /\ now' = t
              /\ posts' = posts \cup {InsertReturning(req[r].text, t)}
              /\ seq' = seq + 1
              /\ UNCHANGED deleted
       ELSE IF applied /\ req[r].op = "delete"
       THEN /\ posts' = posts \ DeleteReturning(req[r].post_id)
            /\ deleted' = deleted \cup Ids(DeleteReturning(req[r].post_id))
            /\ UNCHANGED << seq, now >>
       ELSE UNCHANGED dbVars
    /\ UNCHANGED << startupVars, confirmed, acq, nreq >>

FaultNext ==
    \/ Next
    \/ InitFail
    \/ \E r \in Reqs : PoolTimeout(r)
    \/ \E r \in Reqs : \E applied \in BOOLEAN : ExecFail(r, applied)

FaultSpec == Init /\ [][FaultNext]_vars

\* ================================================================ claims
Done(r) == req[r].pc = "done"

\* this step is slot r's statement being executed and answered
Executed(r) == req[r].pc = "conn" /\ req'[r].pc = "done"

\* this step is slot r taking a create_post that is answered 400
Rejected(r) ==
    /\ nreq' # nreq
    /\ req[r].pc # "conn"
    /\ req'[r].op = "create"
    /\ req'[r].resp.status = 400
    /\ \A o \in Reqs \ {r} : req'[o] = req[o]

AllSpace(s) == \A i \in 1..Len(s) : IsSpace(s[i])

\* t is s without its leading and trailing whitespace
IsTrimOf(t, s) ==
    \E i, j \in 0..Len(s) :
        /\ i + j <= Len(s)
        /\ t = SubSeq(s, i + 1, Len(s) - j)
        /\ AllSpace(SubSeq(s, 1, i))
        /\ AllSpace(SubSeq(s, Len(s) - j + 1, Len(s)))
        /\ t # <<>> => ~IsSpace(t[1]) /\ ~IsSpace(t[Len(t)])

\* ids that have been assigned to a post: those stored and those deleted
Assigned == Ids(posts) \cup deleted

\* ---------------------------------------------------------------- C1
C1_State ==
    /\ \A p \in posts : ~AllSpace(p.text)
    /\ \A r \in Reqs :
        req[r].op = "create" /\ AllSpace(req[r].payload)
            => /\ Done(r)
               /\ req[r].resp = HTTPException(400, "empty text")

C1_Step ==
    \A r \in Reqs :
        /\ Rejected(r) => posts' = posts
        /\ Executed(r) /\ req[r].op = "create"
            => \E row \in posts' :
                /\ row \notin posts
                /\ posts' = posts \cup {row}
                /\ row.text # <<>>
                /\ IsTrimOf(row.text, req[r].payload)

\* C1: no stored post ever has an empty or whitespace-only text: a
\* create_post whose text is empty after trimming is answered 400 and
\* leaves the table unchanged, and the text a create stores is its input
\* trimmed, which is not empty.
C1_NoBlankTextStored == []C1_State /\ [][C1_Step]_vars

\* a whitespace-only create was answered 400 while a create with padded
\* text was stored
C1_Witness ==
    \E r1, r2 \in Reqs :
        /\ Done(r1) /\ req[r1].payload = <<" ">> /\ req[r1].resp.status = 400
        /\ Done(r2) /\ req[r2].payload = <<" ", "a", " ">>
        /\ req[r2].resp.status = 201
        /\ req[r2].resp.rows[1] \in posts

\* ---------------------------------------------------------------- C2
\* the number of positions of rows that hold a row with this id
Occurrences(rows, id) ==
    Cardinality({ i \in 1..Len(rows) : rows[i].id = id })

C2_Step ==
    /\ \A r \in Reqs :
        Executed(r) /\ req[r].op = "create"
            => /\ req'[r].resp.status = 201
               /\ Len(req'[r].resp.rows) = 1
               /\ req'[r].resp.rows[1].id \notin Ids(posts)
               /\ posts' = posts \cup { req'[r].resp.rows[1] }
    /\ \A l \in Reqs :
        Executed(l) /\ req[l].op = "list"
            => \A c \in Reqs :
                /\ Done(c) /\ req[c].op = "create"
                /\ req[c].resp.status = 201
                /\ req[c].resp.rows[1].id \notin deleted
                => /\ Occurrences(req'[l].resp.rows,
                                  req[c].resp.rows[1].id) = 1
                   /\ \E i \in 1..Len(req'[l].resp.rows) :
                        req'[l].resp.rows[i] = req[c].resp.rows[1]

\* C2: a successful create_post adds exactly the row it returns, with a
\* fresh id, and changes no other row; a list_posts executed after it,
\* with no delete of that id in between, returns that row (the id and
\* created_at the create returned) exactly once.
C2_CreateThenList == [][C2_Step]_vars

\* a list answered with two rows, one of them the row a create returned
C2_Witness ==
    \E c, l \in Reqs :
        /\ Done(c) /\ req[c].op = "create" /\ req[c].resp.status = 201
        /\ req[c].resp.rows[1].id \notin deleted
        /\ Done(l) /\ req[l].op = "list"
        /\ Len(req[l].resp.rows) = 2
        /\ \E i \in 1..2 : req[l].resp.rows[i] = req[c].resp.rows[1]

\* ---------------------------------------------------------------- C3
C3_Step ==
    \A r \in Reqs :
        Executed(r) =>
            /\ req[r].op = "delete" /\ req[r].post_id \in Ids(posts)
                => /\ req'[r].resp = Deleted200(req[r].post_id)
                   /\ posts' = { p \in posts : p.id # req[r].post_id }
                   /\ req[r].post_id \in deleted'
            /\ req[r].op = "delete" /\ req[r].post_id \in deleted
                => req'[r].resp = HTTPException(404, "not found")
            /\ req[r].op = "list"
                => \A i \in 1..Len(req'[r].resp.rows) :
                     req'[r].resp.rows[i].id \notin deleted

\* C3: delete_post of a stored id answers {"deleted": id} and removes that
\* row and no other; from then on the id is never stored again, no
\* list_posts returns it and every delete_post of it answers 404.
C3_DeleteThenGone ==
    /\ [](deleted \cap Ids(posts) = {})
    /\ [][deleted \subseteq deleted']_vars
    /\ [][C3_Step]_vars

\* a delete answered 404 for an id deleted earlier
C3_Witness ==
    \E r \in Reqs :
        /\ Done(r) /\ req[r].op = "delete"
        /\ req[r].post_id \in deleted
        /\ ~req[r].stored0
        /\ req[r].resp.status = 404

\* ---------------------------------------------------------------- C4
C4_Step ==
    \A r \in Reqs :
        Executed(r) /\ req[r].op = "delete" /\ req[r].post_id \notin Assigned
            => /\ req'[r].resp = HTTPException(404, "not found")
               /\ posts' = posts
               /\ deleted' = deleted

\* C4: delete_post of an id no post was ever given answers 404 (not a
\* confirmation, not a 500) and leaves the table unchanged.
C4_DeleteUnknownId == [][C4_Step]_vars

\* a delete of a never assigned id answered 404, with a post stored
C4_Witness ==
    \E r \in Reqs :
        /\ Done(r) /\ req[r].op = "delete"
        /\ req[r].post_id \notin Assigned
        /\ req[r].resp.status = 404
        /\ posts # {}

\* ---------------------------------------------------------------- C5
C5_Step ==
    \A r \in Reqs :
        Executed(r) /\ req[r].op = "list"
            => LET rows == req'[r].resp.rows IN
                /\ req'[r].resp.status = 200
                /\ { rows[i] : i \in 1..Len(rows) } = posts
                /\ Len(rows) = Cardinality(posts)
                /\ \A i, j \in 1..Len(rows) :
                     rows[i].created_at > rows[j].created_at => i < j
                /\ posts' = posts

\* C5: list_posts returns every stored post exactly once, a post created
\* at a later time before a post created at an earlier one, and does not
\* change the table.
C5_ListNewestFirst == [][C5_Step]_vars

\* a list answered with two posts created at different times
C5_Witness ==
    \E r \in Reqs :
        /\ Done(r) /\ req[r].op = "list"
        /\ Len(req[r].resp.rows) = 2
        /\ req[r].resp.rows[1].created_at > req[r].resp.rows[2].created_at

\* ---------------------------------------------------------------- C6
C6_State ==
    /\ initRuns <= 1
    /\ initRuns = 1 => pool # None
    /\ tableExists => initRuns = 1
    /\ nreq > 0 \/ (\E r \in Reqs : req[r] # Idle)
        => phase = "serving" /\ pool # None /\ initRuns = 1 /\ tableExists
    /\ phase = "wait_raised"
        => pool = None /\ initRuns = 0 /\ nreq = 0 /\ fatal # None

C6_Step ==
    /\ pool' # pool
        => /\ pool = None
           /\ probes # <<>>
           /\ probes[Len(probes)] = "ok"
    /\ initRuns' # initRuns => pool # None /\ initRuns = 0
    /\ phase # "wait_raised"

\* C6: the pool is created only after wait_for_db has returned from a
\* successful probe, init_db_table runs once and only with the pool in
\* place, no request is handled before init_db_table has completed, and
\* once wait_for_db has raised nothing more happens: no pool, no request.
C6_StartupOrder == []C6_State /\ [][C6_Step]_vars

\* a request has been taken after the startup sequence completed
C6_Witness == phase = "serving" /\ nreq > 0 /\ initRuns = 1 /\ pool = "open"

\* ---------------------------------------------------------------- C7
C7_State ==
    /\ attempt = Len(probes)
    /\ Len(probes) <= retries
    /\ \A i \in 1..Len(probes) :
        probes[i] = "ok" => i = Len(probes) /\ phase = "pool"
    /\ phase = "pool" => probes # <<>> /\ probes[Len(probes)] = "ok"
    /\ phase = "wait_raised"
        => /\ Len(probes) = retries
           /\ \A i \in 1..retries : probes[i] \in ProbeErrors
           /\ fatal = << "RuntimeError", retries, probes[retries] >>
    /\ phase # "wait_raised" => fatal = None

\* C7: wait_for_db ends after at most `retries` attempts: it returns at
\* the first attempt that succeeds and makes no attempt after it, and it
\* raises exactly when all `retries` attempts failed, with the error of the
\* last attempt.
C7_WaitForDb ==
    /\ []C7_State
    /\ [][phase # "wait" => probes' = probes]_vars
    /\ <>(phase # "wait")

\* wait_for_db raised after attempts that failed with different errors
C7_Witness ==
    /\ phase = "wait_raised"
    /\ probes[1] # probes[retries]

\* ---------------------------------------------------------------- C8
\* C8: a handler holds at most one pooled connection, and holds it only
\* while it is inside its with block: a request that has been answered
\* (200, 201, 404 or 500) holds none, a create answered 400 never took one,
\* and when no request is in flight no connection is checked out.
C8_ConnectionsReturned ==
    /\ \A r \in Reqs :
        /\ held[r] \in {0, 1}
        /\ held[r] = 1 <=> req[r].pc = "conn"
        /\ Done(r) /\ req[r].resp.status = 400 => acq[r] = 0
    /\ (\A r \in Reqs : req[r].pc # "conn") => Used = 0

\* a delete answered 404 and a request failed by the database inside its
\* with block, and no connection checked out
C8_Witness ==
    \E r1, r2 \in Reqs :
        /\ Done(r1) /\ req[r1].op = "delete" /\ req[r1].resp.status = 404
        /\ Done(r2) /\ req[r2].resp = ServerError /\ acq[r2] = 1
        /\ Used = 0

\* ---------------------------------------------------------------- C9
C9_Step ==
    \A r \in Reqs :
        Executed(r) /\ req[r].op = "create"
            => \A id \in Assigned : req'[r].resp.rows[1].id > id

\* C9: no two stored posts share an id, and the id a create_post returns
\* is greater than every id assigned before, deleted ones included.
C9_IdsUniqueIncreasing ==
    /\ [](\A p, q \in posts : p.id = q.id => p = q)
    /\ [][C9_Step]_vars

\* a create answered with id 2 after the post with id 1 was deleted
C9_Witness ==
    \E r \in Reqs :
        /\ Done(r) /\ req[r].op = "create" /\ req[r].resp.status = 201
        /\ req[r].resp.rows[1].id = 2
        /\ 1 \in deleted

\* --------------------------------------------------------------- C10
\* the deletes of id that arrived while id was stored
Racers(id) ==
    { r \in Reqs : req[r].op = "delete" /\ req[r].post_id = id
                   /\ req[r].stored0 }

C10_State ==
    \A id \in 1..MaxId :
        /\ confirmed[id] <= 1
        /\ Racers(id) # {} /\ (\A r \in Racers(id) : Done(r))
            => /\ confirmed[id] = 1
               /\ \A r \in Racers(id) :
                    \/ req[r].resp = Deleted200(id)
                    \/ req[r].resp = HTTPException(404, "not found")
               /\ Cardinality({ r \in Racers(id) :
                                  req[r].resp = Deleted200(id) }) <= 1

\* C10: of the delete_post requests for one stored id that run at the same
\* time, exactly one is answered {"deleted": id} and the others 404, none
\* 500, and no other post is removed.
C10_ConcurrentDeletes ==
    /\ []C10_State
    /\ [][\A r \in Reqs :
            Executed(r) /\ req[r].op = "delete"
                => \A p \in posts : p.id # req[r].post_id => p \in posts']_vars

\* two deletes of the same stored id that ran at the same time: one
\* confirmed, the other answered 404
C10_Witness ==
    \E r1, r2 \in Reqs :
        /\ r1 # r2
        /\ r1 \in Racers(req[r1].post_id)
        /\ r2 \in Racers(req[r1].post_id)
        /\ Done(r1) /\ req[r1].resp = Deleted200(req[r1].post_id)
        /\ Done(r2) /\ req[r2].resp.status = 404

====
